---- MODULE Spec2Model ----
(***************************************************************************)
(* A model of server.py: the two tool handlers web_search and              *)
(* append_to_sheet, the module-level TAVILY_KEY, and the lazily built,     *)
(* cached Google Sheets client (_sheets_service / _init_sheets_service).   *)
(*                                                                         *)
(* Python values are modelled as follows.                                  *)
(*   - os.environ is a function from the names that are set to strings.    *)
(*   - None, where it is compared with environment strings, is the string  *)
(*     None below (no environment value of the model equals it).           *)
(*   - An object reference is a natural number: 0 is None, n > 0 is the    *)
(*     n-th Sheets client constructed (objects[n]).                        *)
(*   - A JSON / argument value is a record [kind, ...].                    *)
(*   - A Python str whose characters matter is a sequence of numbers.      *)
(***************************************************************************)
EXTENDS Integers, Sequences, FiniteSets, TLC

VARIABLES
    env,              \* os.environ
    files,            \* the file system: path -> "absent" | "bad" | "good"
    TAVILY_KEY,       \* module global, server.py line 60
    _sheets_service,  \* module global, server.py line 113 (a reference)
    objects,          \* every Sheets client built so far, in build order
    last,             \* what the handler call that has just returned did
    pc,               \* per concurrent caller: its position in _init_sheets_service
    key_path,         \* per concurrent caller: local key_path
    pinfo,            \* per concurrent caller: local pinfo
    ret               \* per concurrent caller: the returned reference

vars == <<env, files, TAVILY_KEY, _sheets_service, objects, last, pc, key_path, pinfo, ret>>

-----------------------------------------------------------------------------
(* Python values *)

None == "<None>"

NoRef == 0

\* bool(s) of a str-or-None
Truthy(s) == s /= None /\ s /= ""

\* a or b
PyOr(a, b) == IF Truthy(a) THEN a ELSE b

\* os.environ.get(name)
EnvGet(e, name) == IF name \in DOMAIN e THEN e[name] ELSE None

Min(a, b) == IF a < b THEN a ELSE b

Max(a, b) == IF a > b THEN a ELSE b

\* s[:n] for n >= 0
Slice(s, n) == SubSeq(s, 1, Min(Len(s), n))

-----------------------------------------------------------------------------
(* The environment the model explores *)

CredVars == {"SERVICE_ACCOUNT_FILE", "GOOGLE_APPLICATION_CREDENTIALS"}

ProxyVars == {"HTTPS_PROXY", "https_proxy", "HTTP_PROXY", "http_proxy"}

Paths == {"/sa.json", "/gac.json"}

\* The values a variable may be set to (besides being unset).
EnvValues(name) ==
    CASE name = "TAVILY_API_KEY" -> {"", "tvly_k"}
      [] name = "SERVICE_ACCOUNT_FILE" -> {"", "/sa.json"}
      [] name = "GOOGLE_APPLICATION_CREDENTIALS" -> {"", "/gac.json"}
      [] name = "HTTPS_PROXY" -> {"", "http://proxy-a:3128"}
      [] name = "https_proxy" -> {"", "http://user:pw@proxy-b"}
      [] name = "HTTP_PROXY" -> {"", "http://proxy-c:0"}
      [] name = "http_proxy" -> {"", "proxy-d:8888"}

EmptyEnv == [n \in {} |-> ""]

-----------------------------------------------------------------------------
(* _proxy_info_from_env, lines 115-135 *)

NoPort == -1

DefaultProxyPort == 8080

\* urllib.parse.urlparse(url): hostname, port, username, password
Urlparse(url) ==
    CASE url = "http://proxy-a:3128" ->
            [hostname |-> "proxy-a", port |-> 3128, username |-> None, password |-> None]
      [] url = "http://user:pw@proxy-b" ->
            [hostname |-> "proxy-b", port |-> NoPort, username |-> "user", password |-> "pw"]
      [] url = "http://proxy-c:0" ->
            [hostname |-> "proxy-c", port |-> 0, username |-> None, password |-> None]
      [] OTHER ->
            [hostname |-> None, port |-> NoPort, username |-> None, password |-> None]

\* httplib2.ProxyInfo(...), lines 129-135
ProxyInfo(url) ==
    LET p == Urlparse(url) IN
    [proxy_host |-> p.hostname,
     proxy_port |-> IF p.port = NoPort \/ p.port = 0 THEN DefaultProxyPort ELSE p.port,
     proxy_user |-> p.username,
     proxy_pass |-> p.password]

\* The same lookup with the order of the four variables reversed.
ProxyUrlLowerFirst(e) ==
    PyOr(EnvGet(e, "http_proxy"),
         PyOr(EnvGet(e, "HTTP_PROXY"),
              PyOr(EnvGet(e, "https_proxy"), EnvGet(e, "HTTPS_PROXY"))))

\* lines 120-125
ProxyUrl(e) ==
    PyOr(EnvGet(e, "HTTPS_PROXY"),
         PyOr(EnvGet(e, "https_proxy"),
              PyOr(EnvGet(e, "HTTP_PROXY"), EnvGet(e, "http_proxy"))))

\* The Optional[ProxyInfo] returned: <<>> is None, <<p>> is the ProxyInfo p.
_proxy_info_from_env(e) ==
    LET url == ProxyUrl(e) IN
    IF ~Truthy(url) THEN <<>> ELSE <<ProxyInfo(url)>>

-----------------------------------------------------------------------------
(* _init_sheets_service, lines 137-158 *)

HttpTimeout == 30

\* A cache check that never finds the client.
CachedNever(service) == FALSE

\* line 139
Cached(service) == service /= NoRef

\* The same lookup with GOOGLE_APPLICATION_CREDENTIALS looked up first.
KeyPathGacFirst(e) ==
    PyOr(EnvGet(e, "GOOGLE_APPLICATION_CREDENTIALS"), EnvGet(e, "SERVICE_ACCOUNT_FILE"))

\* line 143
KeyPath(e) ==
    PyOr(EnvGet(e, "SERVICE_ACCOUNT_FILE"), EnvGet(e, "GOOGLE_APPLICATION_CREDENTIALS"))

\* os.path.exists(path), line 146
PathExists(fs, path) == path \in DOMAIN fs /\ fs[path] /= "absent"

\* service_account.Credentials.from_service_account_file(path) succeeds, line 149
CredentialsLoad(fs, path) == path \in DOMAIN fs /\ fs[path] = "good"

\* The client object line 153-157 builds.
NewClient(path, proxy) == [key_path |-> path, proxy_info |-> proxy, timeout |-> HttpTimeout]

\* An assignment made before build(...) is known to have returned.
AssignAlways(service, objs, ok) == Len(objs) + 1

\* line 157: the global is assigned only when build(...) returned.
AssignBuilt(service, objs, ok) == IF ok THEN Len(objs) + 1 ELSE service

\* One whole call of _init_sheets_service on (service, objs, e, fs); buildOk says
\* whether build(...) returns.  The result names the exception raised ("" when
\* none), the reference returned, the effects performed in order, and the new
\* values of the global and of the set of built objects.
init_sheets_service(service, objs, e, fs, buildOk) ==
    IF Cached(service)
    THEN [exc |-> "", ref |-> service, effects |-> <<>>,
          service |-> service, objects |-> objs]
    ELSE
    LET path == KeyPath(e) IN
    IF ~Truthy(path)
    THEN [exc |-> "RuntimeError", ref |-> NoRef, effects |-> <<"key_path">>,
          service |-> service, objects |-> objs]
    ELSE IF ~PathExists(fs, path)
    THEN [exc |-> "FileNotFoundError", ref |-> NoRef,
          effects |-> <<"key_path", "path.exists">>,
          service |-> service, objects |-> objs]
    ELSE IF ~CredentialsLoad(fs, path)
    THEN [exc |-> "CredentialsError", ref |-> NoRef,
          effects |-> <<"key_path", "path.exists", "from_service_account_file">>,
          service |-> service, objects |-> objs]
    ELSE
    LET proxy == _proxy_info_from_env(e)
        objs2 == Append(objs, NewClient(path, proxy))
        service2 == AssignBuilt(service, objs, buildOk)
    IN
    IF ~buildOk
    THEN [exc |-> "BuildError", ref |-> NoRef,
          effects |-> <<"key_path", "path.exists", "from_service_account_file",
                        "_proxy_info_from_env", "build">>,
          service |-> service2, objects |-> objs]
    ELSE [exc |-> "", ref |-> service2,
          effects |-> <<"key_path", "path.exists", "from_service_account_file",
                        "_proxy_info_from_env", "build">>,
          service |-> service2, objects |-> objs2]

-----------------------------------------------------------------------------
(* JSON values and arguments *)

JNull == [kind |-> "null", s |-> <<>>]

JMissing == [kind |-> "missing", s |-> <<>>]

Str(chars) == [kind |-> "str", s |-> chars]

\* d.get(field): None when the key is absent
JGet(item, field) == IF item[field].kind = "missing" THEN JNull ELSE item[field]

\* bool(v) of a str, an int or None
JTruthy(v) ==
    CASE v.kind = "str" -> v.s /= <<>>
      [] v.kind = "int" -> v.n /= 0
      [] OTHER -> FALSE

\* v or d
JOr(v, d) == IF JTruthy(v) THEN v ELSE d

\* v[:n] of a str
Truncate(v, n) == [kind |-> v.kind, s |-> Slice(v.s, n)]

-----------------------------------------------------------------------------
(* web_search, lines 62-107 *)

MaxResultsCap == 20

TitleLimit == 300

ContentLimit == 2000

\* "not TAVILY_KEY", line 72
KeyMissing(key) == ~Truthy(key)

\* "not query or not isinstance(query, str)", line 75
QueryInvalid(query) == ~JTruthy(query) \/ query.kind /= "str"

\* int(max_results), line 81: the exception it raises, or the integer
IntCoerce(m) ==
    CASE m.kind = "int" -> [exc |-> "", n |-> m.n]
      [] m.kind = "numstr" -> [exc |-> "", n |-> m.n]
      [] m.kind = "badstr" -> [exc |-> "ValueError", n |-> 0]
      [] OTHER -> [exc |-> "TypeError", n |-> 0]

\* min(n, 20) without the lower bound.
ClampUpperOnly(n) == Min(n, MaxResultsCap)

\* max(1, min(n, 20)), line 81
Clamp(n) == Max(1, Min(n, MaxResultsCap))

\* lines 78-82
Payload(query, search_depth, n) ==
    [query |-> query, search_depth |-> search_depth, max_results |-> Clamp(n)]

\* The item without the `or ""` defaults.
ShapeItemNoDefault(item) ==
    [title |-> Truncate(JGet(item, "title"), TitleLimit),
     url |-> JGet(item, "url"),
     content |-> Truncate(JGet(item, "content"), ContentLimit)]

\* lines 100-104
ShapeItem(item) ==
    [title |-> Truncate(JOr(JGet(item, "title"), Str(<<>>)), TitleLimit),
     url |-> JOr(JGet(item, "url"), Str(<<>>)),
     content |-> Truncate(JOr(JGet(item, "content"), Str(<<>>)), ContentLimit)]

\* data.get("results", [])[: payload["max_results"]], line 98
TakeResults(data, payload) ==
    LET items == IF data.has_results THEN data.results ELSE <<>> IN
    Slice(items, payload.max_results)

\* lines 97-105
ShapeResults(data, payload) ==
    LET taken == TakeResults(data, payload) IN
    [i \in 1..Len(taken) |-> ShapeItem(taken[i])]

NoOutput == [exc |-> "", effects |-> <<>>, sent |-> <<>>, results |-> <<>>]

\* One whole call of web_search with the module's key; response is what the
\* backend answers if it is asked.  sent is the request body posted (<<>> when
\* nothing was posted).
web_search(key, query, search_depth, max_results, response) ==
    IF KeyMissing(key) THEN [NoOutput EXCEPT !.exc = "RuntimeError"]
    ELSE IF QueryInvalid(query) THEN [NoOutput EXCEPT !.exc = "ValueError"]
    ELSE
    LET n == IntCoerce(max_results) IN
    IF n.exc /= "" THEN [NoOutput EXCEPT !.exc = n.exc]
    ELSE
    LET payload == Payload(query, search_depth, n.n) IN
    IF response.status /= "ok"
    THEN [NoOutput EXCEPT !.exc = "HTTPError", !.effects = <<"POST">>,
                          !.sent = <<payload>>]
    ELSE [NoOutput EXCEPT !.effects = <<"POST">>, !.sent = <<payload>>,
                          !.results = ShapeResults(response, payload)]

-----------------------------------------------------------------------------
(* append_to_sheet, lines 160-195 *)

\* "not isinstance(rows, list) or (rows and not isinstance(rows[0], list))", line 174
RowsInvalid(rows) ==
    rows.kind /= "list" \/ (Len(rows.elems) > 0 /\ rows.elems[1] /= "list")

\* lines 170-175: the exception the argument checks raise, "" when none
ValidateAppend(spreadsheet_id, range_name, rows) ==
    IF spreadsheet_id = "" THEN "ValueError"
    ELSE IF range_name = "" THEN "ValueError"
    ELSE IF RowsInvalid(rows) THEN "ValueError"
    ELSE ""

NotCalled(service, objs) ==
    [exc |-> "", ref |-> NoRef, effects |-> <<>>, service |-> service, objects |-> objs]

\* The factory called before the arguments are checked.
ClientBeforeChecks(invalid, service, objs, e, fs, buildOk) ==
    init_sheets_service(service, objs, e, fs, buildOk)

\* lines 170-177: the factory is called only once the arguments are accepted.
ClientAfterChecks(invalid, service, objs, e, fs, buildOk) ==
    IF invalid /= "" THEN NotCalled(service, objs)
    ELSE init_sheets_service(service, objs, e, fs, buildOk)

\* int(result.get("updates", {}).get("updatedRows") or 0), line 193
UpdatedRows(backend) == IF backend.updates = <<>> THEN 0 ELSE backend.updates[1]

\* One whole call of append_to_sheet.
append_to_sheet(spreadsheet_id, range_name, rows, service, objs, e, fs, buildOk, backend) ==
    LET invalid == ValidateAppend(spreadsheet_id, range_name, rows)
        f == ClientAfterChecks(invalid, service, objs, e, fs, buildOk)
        base == [exc |-> "", ref |-> f.ref, effects |-> f.effects,
                 service |-> f.service, objects |-> f.objects, updatedRows |-> 0]
    IN
    IF invalid /= "" THEN [base EXCEPT !.exc = invalid]
    ELSE IF f.exc /= "" THEN [base EXCEPT !.exc = f.exc]
    ELSE IF backend.status /= "ok"
    THEN [base EXCEPT !.exc = "HttpError", !.effects = Append(f.effects, "append.execute")]
    ELSE [base EXCEPT !.effects = Append(f.effects, "append.execute"),
                      !.updatedRows = UpdatedRows(backend)]

-----------------------------------------------------------------------------
(* Arguments and backend answers the model explores *)

MaxM == 22

MaxItems == 22

MaxRows == 2

Over == 1

DefaultMaxResults == 5

PyInt(n) == [kind |-> "int", s |-> <<>>, n |-> n]

\* a str of the given length whose characters depend on position and tag
Chars(len, tag) == [i \in 1..len |-> (i + tag) % 7]

\* The j-th result item of a backend answer of the given variant: the fields
\* run through present, absent, null, empty, at the limit and over the limit.
BackendItem(j, variant) ==
    LET shape == (j + variant) % 6 IN
    [title |-> CASE shape = 0 -> Str(Chars(5, j))
                 [] shape = 1 -> JMissing
                 [] shape = 2 -> JNull
                 [] shape = 3 -> Str(Chars(TitleLimit + Over, j))
                 [] shape = 4 -> Str(Chars(TitleLimit, j))
                 [] OTHER -> Str(<<>>),
     url |-> CASE shape = 1 -> JNull
               [] shape = 2 -> JMissing
               [] shape = 5 -> Str(<<>>)
               [] OTHER -> Str(<<j, j>>),
     content |-> CASE j = 1 /\ variant = 0 -> Str(Chars(ContentLimit + Over, j))
                   [] j = 1 /\ variant = 1 -> Str(Chars(ContentLimit, j))
                   [] shape = 1 -> JMissing
                   [] shape = 2 -> JNull
                   [] shape = 4 -> Str(<<>>)
                   [] OTHER -> Str(Chars(3, j))]

Response(k, variant) ==
    [status |-> "ok", has_results |-> TRUE,
     results |-> [j \in 1..k |-> BackendItem(j, variant)]]

ResponseNoResults == [status |-> "ok", has_results |-> FALSE, results |-> <<>>]

ResponseError == [status |-> "error", has_results |-> FALSE, results |-> <<>>]

Query1 == Str(<<1, 2>>)

SearchArgs(query, search_depth, max_results, response) ==
    [query |-> query, search_depth |-> search_depth, max_results |-> max_results,
     response |-> response]

\* A few calls of web_search, for the specifications about the environment.
SearchInputs ==
    {SearchArgs(q, "basic", PyInt(DefaultMaxResults), r) :
        q \in {Query1, Str(<<>>)}, r \in {Response(1, 0), ResponseError}}

\* Many calls of web_search, for the specification about the handlers.
SearchInputsAny ==
    {SearchArgs(q, d, PyInt(DefaultMaxResults), r) :
        q \in {Query1, Str(<<>>), JNull, PyInt(7), PyInt(0)},
        d \in {"basic", "advanced"},
        r \in {Response(1, 0), ResponseError}}
    \cup
    {SearchArgs(Query1, "basic", m, r) :
        m \in {PyInt(n) : n \in (0 - MaxM)..MaxM}
              \cup {[kind |-> "numstr", s |-> <<>>, n |-> 7],
                    [kind |-> "badstr", s |-> <<>>, n |-> 0],
                    [kind |-> "null", s |-> <<>>, n |-> 0]},
        r \in {Response(k, v) : k \in 0..MaxItems, v \in 0..2}
              \cup {ResponseNoResults, ResponseError}}

Rows(kind, elems) == [kind |-> kind, elems |-> elems]

RECURSIVE SeqsUpTo(_, _)
\* every sequence over S of length at most n
SeqsUpTo(S, n) ==
    IF n = 0 THEN {<<>>}
    ELSE LET shorter == SeqsUpTo(S, n - 1) IN
         shorter \cup {Append(q, x) : q \in shorter, x \in S}

BackendOk(n) == [status |-> "ok", updates |-> <<n>>]

BackendOkNoCount == [status |-> "ok", updates |-> <<>>]

BackendError == [status |-> "error", updates |-> <<>>]

AppendArgs(spreadsheet_id, range_name, rows, buildOk, backend) ==
    [spreadsheet_id |-> spreadsheet_id, range_name |-> range_name, rows |-> rows,
     buildOk |-> buildOk, backend |-> backend]

AppendInputs ==
    {AppendArgs(sid, "Sheet1!A1:B", rows, ok, b) :
        sid \in {"", "X"},
        rows \in {Rows("list", <<"list">>), Rows("list", <<"str">>)},
        ok \in BOOLEAN,
        b \in {BackendOk(1), BackendError}}

AppendInputsAny ==
    {AppendArgs(sid, rn, rows, ok, b) :
        sid \in {"", "X"},
        rn \in {"", "Sheet1!A1:B"},
        rows \in {Rows("list", q) : q \in SeqsUpTo({"list", "str"}, MaxRows)}
                 \cup {Rows("tuple", <<"list">>), Rows("str", <<"str", "str">>),
                       Rows("null", <<>>)},
        ok \in BOOLEAN,
        b \in {BackendOk(0), BackendOk(1), BackendOkNoCount, BackendError}}

-----------------------------------------------------------------------------
(* The dispatcher: one invocation at a time (mcp.run, line 203) *)

NumCallers == 2

Callers == 1..NumCallers

NoArgs == [none |-> TRUE]

\* No call has returned since the last response was delivered.
NoCall ==
    [op |-> "none", args |-> NoArgs, exc |-> "", effects |-> <<>>, ref |-> NoRef,
     sent |-> <<>>, results |-> <<>>, updatedRows |-> 0]

Idle == last.op = "none"

threads == <<pc, key_path, pinfo, ret>>

\* os.environ[name] = value
SetEnv(names) ==
    /\ Idle
    /\ \E n \in names : \E v \in EnvValues(n) :
          /\ EnvGet(env, n) /= v
          /\ env' = [m \in DOMAIN env \cup {n} |-> IF m = n THEN v ELSE env[m]]
    /\ UNCHANGED <<files, TAVILY_KEY, _sheets_service, objects, last, threads>>

\* del os.environ[name]
UnsetEnv(names) ==
    /\ Idle
    /\ \E n \in names \cap DOMAIN env :
          env' = [m \in DOMAIN env \ {n} |-> env[m]]
    /\ UNCHANGED <<files, TAVILY_KEY, _sheets_service, objects, last, threads>>

\* A credential file is written, damaged or removed.
WriteFile ==
    /\ Idle
    /\ \E p \in Paths, status \in {"absent", "bad", "good"} :
          /\ files[p] /= status
          /\ files' = [files EXCEPT ![p] = status]
    /\ UNCHANGED <<env, TAVILY_KEY, _sheets_service, objects, last, threads>>

\* The dispatcher calls web_search(**a) and holds its outcome.
WebSearchCall(a) ==
    /\ Idle
    /\ LET r == web_search(TAVILY_KEY, a.query, a.search_depth, a.max_results, a.response)
       IN last' = [op |-> "web_search", args |-> a, exc |-> r.exc,
                   effects |-> r.effects, ref |-> NoRef, sent |-> r.sent,
                   results |-> r.results, updatedRows |-> 0]
    /\ UNCHANGED <<env, files, TAVILY_KEY, _sheets_service, objects, threads>>

\* The dispatcher calls append_to_sheet(**a) and holds its outcome.
AppendToSheetCall(a) ==
    /\ Idle
    /\ LET r == append_to_sheet(a.spreadsheet_id, a.range_name, a.rows,
                                _sheets_service, objects, env, files, a.buildOk, a.backend)
       IN /\ last' = [op |-> "append_to_sheet", args |-> a, exc |-> r.exc,
                      effects |-> r.effects, ref |-> r.ref, sent |-> <<>>,
                      results |-> <<>>, updatedRows |-> r.updatedRows]
          /\ _sheets_service' = r.service
          /\ objects' = r.objects
    /\ UNCHANGED <<env, files, TAVILY_KEY, threads>>

\* _init_sheets_service() called on its own.
InitSheetsService ==
    /\ Idle
    /\ \E ok \in BOOLEAN :
         LET r == init_sheets_service(_sheets_service, objects, env, files, ok)
         IN /\ last' = [op |-> "_init_sheets_service", args |-> [buildOk |-> ok],
                        exc |-> r.exc, effects |-> r.effects, ref |-> r.ref,
                        sent |-> <<>>, results |-> <<>>, updatedRows |-> 0]
            /\ _sheets_service' = r.service
            /\ objects' = r.objects
    /\ UNCHANGED <<env, files, TAVILY_KEY, threads>>

\* The outcome is serialized back to the caller; the next invocation may come.
Respond ==
    /\ ~Idle
    /\ last' = NoCall
    /\ UNCHANGED <<env, files, TAVILY_KEY, _sheets_service, objects, threads>>

WebSearch == \E a \in SearchInputs : WebSearchCall(a)

AppendToSheet == \E a \in AppendInputs : AppendToSheetCall(a)

WebSearchAny == \E a \in SearchInputsAny : WebSearchCall(a)

AppendToSheetAny == \E a \in AppendInputsAny : AppendToSheetCall(a)

SetKeyOrCredEnv == SetEnv(CredVars \cup {"TAVILY_API_KEY"})

UnsetKeyOrCredEnv == UnsetEnv(CredVars \cup {"TAVILY_API_KEY"})

SetProxyEnv == SetEnv(ProxyVars)

UnsetProxyEnv == UnsetEnv(ProxyVars)

\* The state once the module is imported with the environment e and files fs.
Imported(e, fs) ==
    /\ env = e
    /\ files = fs
    /\ TAVILY_KEY = EnvGet(e, "TAVILY_API_KEY")
    /\ _sheets_service = NoRef
    /\ objects = <<>>
    /\ last = NoCall
    /\ pc = [t \in Callers |-> "idle"]
    /\ key_path = [t \in Callers |-> None]
    /\ pinfo = [t \in Callers |-> <<>>]
    /\ ret = [t \in Callers |-> NoRef]

NoFiles == [p \in Paths |-> "absent"]

OnlyKey(v) == [n \in {"TAVILY_API_KEY"} |-> v]

ValidCreds == [n \in {"SERVICE_ACCOUNT_FILE"} |-> "/sa.json"]

GoodFiles == [p \in Paths |-> IF p = "/sa.json" THEN "good" ELSE "absent"]

\* The process starts with the search key unset, empty or set, and nothing else.
Init ==
    \E e \in {EmptyEnv} \cup {OnlyKey(v) : v \in EnvValues("TAVILY_API_KEY")} :
        Imported(e, NoFiles)

Next ==
    \/ SetKeyOrCredEnv
    \/ UnsetKeyOrCredEnv
    \/ WriteFile
    \/ WebSearch
    \/ AppendToSheet
    \/ InitSheetsService
    \/ Respond

\* The key and the credentials change between sequential invocations.
Spec == Init /\ [][Next]_vars

InitProxy == Imported(ValidCreds, GoodFiles)

NextProxy ==
    \/ SetProxyEnv
    \/ UnsetProxyEnv
    \/ AppendToSheet
    \/ Respond

\* The proxy variables change between sequential invocations.
SpecProxy == InitProxy /\ [][NextProxy]_vars

InitCalls ==
    \E e \in {EmptyEnv, OnlyKey("tvly_k"), ValidCreds,
              [n \in {"TAVILY_API_KEY", "SERVICE_ACCOUNT_FILE"} |->
                  IF n = "TAVILY_API_KEY" THEN "tvly_k" ELSE "/sa.json"]} :
        Imported(e, GoodFiles)

NextCalls ==
    \/ WebSearchAny
    \/ AppendToSheetAny
    \/ Respond

\* Sequential invocations with many arguments in a fixed environment.
SpecCalls == InitCalls /\ [][NextCalls]_vars

-----------------------------------------------------------------------------
(* Concurrent callers of _init_sheets_service, one step per statement *)

\* A caller enters _init_sheets_service.
Enter(t) ==
    /\ pc[t] = "idle"
    /\ pc' = [pc EXCEPT ![t] = "l139"]
    /\ UNCHANGED <<env, files, TAVILY_KEY, _sheets_service, objects, last,
                   key_path, pinfo, ret>>

\* lines 139-140
CheckCache(t) ==
    /\ pc[t] = "l139"
    /\ IF Cached(_sheets_service)
       THEN /\ ret' = [ret EXCEPT ![t] = _sheets_service]
            /\ pc' = [pc EXCEPT ![t] = "returned"]
       ELSE /\ pc' = [pc EXCEPT ![t] = "l143"]
            /\ UNCHANGED ret
    /\ UNCHANGED <<env, files, TAVILY_KEY, _sheets_service, objects, last,
                   key_path, pinfo>>

\* lines 143-147
ResolveKeyPath(t) ==
    /\ pc[t] = "l143"
    /\ key_path' = [key_path EXCEPT ![t] = KeyPath(env)]
    /\ pc' = [pc EXCEPT ![t] =
                IF ~Truthy(KeyPath(env)) \/ ~PathExists(files, KeyPath(env))
                THEN "raised" ELSE "l149"]
    /\ UNCHANGED <<env, files, TAVILY_KEY, _sheets_service, objects, last, pinfo, ret>>

\* line 149
LoadCredentials(t) ==
    /\ pc[t] = "l149"
    /\ pc' = [pc EXCEPT ![t] =
                IF CredentialsLoad(files, key_path[t]) THEN "l152" ELSE "raised"]
    /\ UNCHANGED <<env, files, TAVILY_KEY, _sheets_service, objects, last,
                   key_path, pinfo, ret>>

\* lines 152-154
ResolveProxy(t) ==
    /\ pc[t] = "l152"
    /\ pinfo' = [pinfo EXCEPT ![t] = _proxy_info_from_env(env)]
    /\ pc' = [pc EXCEPT ![t] = "l157"]
    /\ UNCHANGED <<env, files, TAVILY_KEY, _sheets_service, objects, last,
                   key_path, ret>>

\* line 157
BuildAndAssign(t) ==
    /\ pc[t] = "l157"
    /\ \E ok \in BOOLEAN :
          /\ _sheets_service' = AssignBuilt(_sheets_service, objects, ok)
          /\ objects' = IF ok THEN Append(objects, NewClient(key_path[t], pinfo[t]))
                        ELSE objects
          /\ pc' = [pc EXCEPT ![t] = IF ok THEN "l158" ELSE "raised"]
    /\ UNCHANGED <<env, files, TAVILY_KEY, last, key_path, pinfo, ret>>

\* line 158
ReturnService(t) ==
    /\ pc[t] = "l158"
    /\ ret' = [ret EXCEPT ![t] = _sheets_service]
    /\ pc' = [pc EXCEPT ![t] = "returned"]
    /\ UNCHANGED <<env, files, TAVILY_KEY, _sheets_service, objects, last,
                   key_path, pinfo>>

\* The caller has its answer and may call again.
Leave(t) ==
    /\ pc[t] \in {"returned", "raised"}
    /\ pc' = [pc EXCEPT ![t] = "idle"]
    /\ key_path' = [key_path EXCEPT ![t] = None]
    /\ pinfo' = [pinfo EXCEPT ![t] = <<>>]
    /\ ret' = [ret EXCEPT ![t] = NoRef]
    /\ UNCHANGED <<env, files, TAVILY_KEY, _sheets_service, objects, last>>

SetCredEnv == SetEnv(CredVars)

UnsetCredEnv == UnsetEnv(CredVars)

InitConc == Imported(ValidCreds, GoodFiles)

NextConc ==
    \/ \E t \in Callers : Enter(t)
    \/ \E t \in Callers : CheckCache(t)
    \/ \E t \in Callers : ResolveKeyPath(t)
    \/ \E t \in Callers : LoadCredentials(t)
    \/ \E t \in Callers : ResolveProxy(t)
    \/ \E t \in Callers : BuildAndAssign(t)
    \/ \E t \in Callers : ReturnService(t)
    \/ \E t \in Callers : Leave(t)
    \/ SetCredEnv
    \/ UnsetCredEnv
    \/ WriteFile

\* Callers of the factory that run concurrently, interleaved statement by statement.
SpecConc == InitConc /\ [][NextConc]_vars

-----------------------------------------------------------------------------
(* Vocabulary of the properties *)

ConfigurationError == "RuntimeError"

NotFoundError == "FileNotFoundError"

InvalidArgument == {"ValueError", "TypeError"}

\* What the factory does when it constructs a client.
ConstructionEffects ==
    {"key_path", "path.exists", "from_service_account_file", "_proxy_info_from_env",
     "build"}

NetworkEffects == {"POST", "append.execute"}

Performed(call, kinds) == {i \in 1..Len(call.effects) : call.effects[i] \in kinds} /= {}

\* The call held in `call` went through _init_sheets_service.
UsedFactory(call) ==
    \/ call.op = "_init_sheets_service"
    \/ call.op = "append_to_sheet" /\ call.exc \notin InvalidArgument

FactoryFailures == {ConfigurationError, NotFoundError, "CredentialsError", "BuildError"}

ProxyOrder == <<"HTTPS_PROXY", "https_proxy", "HTTP_PROXY", "http_proxy">>

CredOrder == <<"SERVICE_ACCOUNT_FILE", "GOOGLE_APPLICATION_CREDENTIALS">>

\* The value of the first variable of `order` that satisfies Counts, None if none does.
FirstValue(e, order, Counts(_)) ==
    LET hits == {i \in 1..Len(order) : Counts(EnvGet(e, order[i]))} IN
    IF hits = {} THEN None
    ELSE EnvGet(e, order[CHOOSE i \in hits : \A j \in hits : i <= j])

IsSet(v) == v /= None

IsNonEmpty(v) == v /= None /\ v /= ""

\* The proxy configuration built from the value v of the chosen variable.
ProxyFor(v) == IF v = None THEN <<>> ELSE <<ProxyInfo(v)>>

-----------------------------------------------------------------------------
(* C1 *)

\* C1: a web_search call fails with ConfigurationError exactly when
\* TAVILY_API_KEY is absent (unset or empty) from the environment at the moment
\* of that call, whatever the environment was at startup.
C1_KeyCheckedAtCallTime ==
    last.op = "web_search" =>
        (last.exc = ConfigurationError <=> ~IsNonEmpty(EnvGet(env, "TAVILY_API_KEY")))

-----------------------------------------------------------------------------
(* C2 *)

\* C2: under every interleaving of concurrent callers of _init_sheets_service
\* at most one client is ever constructed and assigned, and all callers that
\* have returned hold that same instance.
C2_SingleFlight ==
    /\ Len(objects) <= 1
    /\ \A t \in Callers, u \in Callers :
          pc[t] = "returned" /\ pc[u] = "returned" => ret[t] = ret[u]

-----------------------------------------------------------------------------
(* C3 *)

\* C3: in a sequential run, once the factory has succeeded (the cache is
\* populated), every step leaves the cached reference and the set of built
\* clients as they are, and every later call that goes through the factory
\* returns that same reference and performs no credential-path resolution, no
\* existence check, no credential load and no build.
C3_CachedClientReused ==
    [][_sheets_service /= NoRef =>
          /\ _sheets_service' = _sheets_service
          /\ objects' = objects
          /\ (last.op = "none" /\ UsedFactory(last')) =>
                /\ last'.ref = _sheets_service
                /\ ~Performed(last', ConstructionEffects)]_vars

\* A call of append_to_sheet was served from the cache.
C3_Witness ==
    /\ _sheets_service /= NoRef
    /\ last.op = "append_to_sheet"
    /\ last.exc = ""
    /\ last.ref = _sheets_service
    /\ last.effects = <<"append.execute">>

-----------------------------------------------------------------------------
(* C4 *)

\* C4 as stated: the client is constructed with the proxy of the first
\* variable that is set, in the order HTTPS_PROXY, https_proxy, HTTP_PROXY,
\* http_proxy (no proxy when none is set), and once constructed the cached
\* client and its proxy never change.
C4_FirstSetProxy ==
    [][/\ (_sheets_service = NoRef /\ _sheets_service' /= NoRef) =>
              objects'[_sheets_service'].proxy_info
                  = ProxyFor(FirstValue(env, ProxyOrder, IsSet))
       /\ _sheets_service /= NoRef =>
              /\ _sheets_service' = _sheets_service
              /\ objects'[_sheets_service'] = objects[_sheets_service]]_vars

\* C4 amended: the client is constructed with the proxy of the first variable
\* that is set to a non-empty value, in the order HTTPS_PROXY, https_proxy,
\* HTTP_PROXY, http_proxy (no proxy when none is), and once constructed the
\* cached client and its proxy never change, whatever happens to the variables.
C4_ProxyFixedAtConstruction ==
    [][/\ (_sheets_service = NoRef /\ _sheets_service' /= NoRef) =>
              objects'[_sheets_service'].proxy_info
                  = ProxyFor(FirstValue(env, ProxyOrder, IsNonEmpty))
       /\ _sheets_service /= NoRef =>
              /\ _sheets_service' = _sheets_service
              /\ objects'[_sheets_service'] = objects[_sheets_service]]_vars

\* An append_to_sheet call ran on a cached client whose proxy is not the one
\* the environment would now give.
C4_Witness ==
    /\ _sheets_service /= NoRef
    /\ last.op = "append_to_sheet"
    /\ last.exc = ""
    /\ last.effects = <<"append.execute">>
    /\ objects[_sheets_service].proxy_info /= <<>>
    /\ objects[_sheets_service].proxy_info /= _proxy_info_from_env(env)
    /\ Cardinality(DOMAIN env \cap ProxyVars) >= 2

-----------------------------------------------------------------------------
(* C5 *)

ListOfLists(rows) ==
    rows.kind = "list" /\ \A i \in 1..Len(rows.elems) : rows.elems[i] = "list"

\* C5: with spreadsheet_id and range_name given, append_to_sheet raises
\* InvalidArgument exactly when rows is not a list whose every element is a
\* list; the empty list is accepted.
C5_RowsListOfLists ==
    (/\ last.op = "append_to_sheet"
     /\ last.args.spreadsheet_id /= ""
     /\ last.args.range_name /= "") =>
        (last.exc \in InvalidArgument <=> ~ListOfLists(last.args.rows))

-----------------------------------------------------------------------------
(* C6 *)

ValidationFailed(call) ==
    \/ call.op = "web_search" /\ call.exc \in InvalidArgument \cup {ConfigurationError}
    \/ call.op = "append_to_sheet" /\ call.exc \in InvalidArgument

\* C6: a web_search or append_to_sheet call that ends in an input-validation
\* failure, or a web_search call that ends in the missing-key
\* ConfigurationError, has performed no effect at all (no network call, no
\* step of the factory), has sent no request, holds no client and has left the
\* cache and the built clients as they were.
C6_ValidationBeforeEffects ==
    [][ValidationFailed(last') =>
          /\ last'.effects = <<>>
          /\ last'.sent = <<>>
          /\ last'.ref = NoRef
          /\ _sheets_service' = _sheets_service
          /\ objects' = objects]_vars

\* A flat rows argument was rejected while the credentials were in place and
\* no client had been built.
C6_Witness ==
    /\ last.op = "append_to_sheet"
    /\ last.exc \in InvalidArgument
    /\ last.args.spreadsheet_id /= ""
    /\ last.args.range_name /= ""
    /\ last.args.rows = Rows("list", <<"str", "str">>)
    /\ last.args.buildOk
    /\ IsNonEmpty(EnvGet(env, "SERVICE_ACCOUNT_FILE"))
    /\ _sheets_service = NoRef

-----------------------------------------------------------------------------
(* C7 *)

\* max(1, min(m, 20)) spelled out by cases
EffectiveBound(m) == IF m < 1 THEN 1 ELSE IF m > MaxResultsCap THEN MaxResultsCap ELSE m

\* The number of items the backend answered.
BackendCount(response) == IF response.has_results THEN Len(response.results) ELSE 0

\* A web_search call with a key, a valid query and an integer max_results.
IntegerSearch(call) ==
    /\ call.op = "web_search"
    /\ call.exc /= ConfigurationError
    /\ call.args.query.kind = "str"
    /\ call.args.query.s /= <<>>
    /\ call.args.max_results.kind = "int"

\* C7: for every integer max_results m, web_search raises no argument error,
\* sends max(1, min(m, 20)) as max_results in the request body, returns at most
\* that many results (exactly that many when the backend has more), and the
\* bound lies in 1..20.
C7_EffectiveBound ==
    IntegerSearch(last) =>
        LET b == EffectiveBound(last.args.max_results.n) IN
        /\ last.exc \notin InvalidArgument
        /\ Len(last.sent) = 1
        /\ last.sent[1].max_results = b
        /\ b \in 1..MaxResultsCap
        /\ last.exc = "" =>
              Len(last.results) = Min(BackendCount(last.args.response), b)

\* A request for more than 20 results, answered with more than 20 items, came
\* back with 20.
C7_Witness ==
    /\ IntegerSearch(last)
    /\ last.exc = ""
    /\ last.args.max_results.n > MaxResultsCap
    /\ Len(last.args.response.results) > MaxResultsCap
    /\ Len(last.results) = MaxResultsCap

-----------------------------------------------------------------------------
(* C8 *)

\* The first `limit` characters of the source field, "" when it is absent or null.
ExpectedField(src, limit) ==
    IF src.kind = "str"
    THEN [kind |-> "str", s |-> [j \in 1..Min(Len(src.s), limit) |-> src.s[j]]]
    ELSE [kind |-> "str", s |-> <<>>]

\* C8: a successful web_search whose backend answered k items, with effective
\* bound b, returns min(k, b) items, the i-th built from the i-th backend item:
\* title is the first 300 characters of its title, content the first 2000 of
\* its content, url its url, each the empty string when the source field is
\* absent or null, and all three are strings.
C8_ResultsShaped ==
    (last.op = "web_search" /\ last.exc = "" /\ last.args.response.has_results) =>
        LET src == last.args.response.results
            b == last.sent[1].max_results
        IN
        /\ Len(last.results) = Min(Len(src), b)
        /\ \A i \in 1..Len(last.results) :
              /\ last.results[i].title = ExpectedField(src[i].title, TitleLimit)
              /\ last.results[i].url = ExpectedField(src[i].url, Len(src[i].url.s))
              /\ last.results[i].content = ExpectedField(src[i].content, ContentLimit)

\* The backend answered more items than the bound, among the returned ones a
\* title and a content over the limit and an item without title.
C8_Witness ==
    /\ last.op = "web_search"
    /\ last.exc = ""
    /\ Len(last.args.response.results) > Len(last.results)
    /\ \E i \in 1..Len(last.results) :
          Len(last.args.response.results[i].title.s) > TitleLimit
    /\ \E i \in 1..Len(last.results) :
          Len(last.args.response.results[i].content.s) > ContentLimit
    /\ \E i \in 1..Len(last.results) :
          last.args.response.results[i].title.kind = "missing"

-----------------------------------------------------------------------------
(* C9 *)

\* What an uncached call of the factory does, given the credential path p the
\* property names: ConfigurationError exactly when there is no path,
\* NotFoundError exactly when the path does not exist, in both cases nothing
\* loaded, resolved or built, and a client built only from p.
FirstCallResolves(p) ==
    /\ (last'.exc = ConfigurationError <=> p = None)
    /\ (last'.exc = NotFoundError <=> (p /= None /\ ~PathExists(files, p)))
    /\ last'.exc \in {ConfigurationError, NotFoundError} =>
          /\ ~Performed(last', {"from_service_account_file", "_proxy_info_from_env",
                                "build"})
          /\ _sheets_service' = NoRef
          /\ objects' = objects
    /\ _sheets_service' /= NoRef => objects'[_sheets_service'].key_path = p

\* C9 as stated: the path is SERVICE_ACCOUNT_FILE when it is set, otherwise
\* GOOGLE_APPLICATION_CREDENTIALS; ConfigurationError when neither is set.
C9_FirstSetCredential ==
    [][(_sheets_service = NoRef /\ last.op = "none" /\ UsedFactory(last')) =>
          FirstCallResolves(FirstValue(env, CredOrder, IsSet))]_vars

\* C9 amended: the path is SERVICE_ACCOUNT_FILE when it is set to a non-empty
\* value, otherwise GOOGLE_APPLICATION_CREDENTIALS when that is set to a
\* non-empty value; ConfigurationError when neither is.
C9_CredentialPathResolved ==
    [][(_sheets_service = NoRef /\ last.op = "none" /\ UsedFactory(last')) =>
          FirstCallResolves(FirstValue(env, CredOrder, IsNonEmpty))]_vars

\* With SERVICE_ACCOUNT_FILE unset the path of GOOGLE_APPLICATION_CREDENTIALS
\* was tried and the file was not there.
C9_Witness ==
    /\ UsedFactory(last)
    /\ last.exc = NotFoundError
    /\ "SERVICE_ACCOUNT_FILE" \notin DOMAIN env
    /\ EnvGet(env, "GOOGLE_APPLICATION_CREDENTIALS") = "/gac.json"
    /\ files["/sa.json"] = "good"
    /\ _sheets_service = NoRef

-----------------------------------------------------------------------------
(* C10 *)

\* The credential variables name a file that loads.
ValidEnvironment(e, fs) ==
    LET p == FirstValue(e, CredOrder, IsNonEmpty) IN
    p /= None /\ p \in DOMAIN fs /\ fs[p] = "good"

\* C10: a call whose construction fails leaves the cache empty, builds
\* nothing and issues no backend append; any uncached call made while the
\* environment is valid and the build returns populates the cache, whatever
\* failed before; and a populated cache always refers to a built client.
C10_FailedConstructionRetried ==
    [][(last.op = "none" /\ UsedFactory(last')) =>
          /\ last'.exc \in FactoryFailures =>
                /\ _sheets_service' = NoRef
                /\ objects' = objects
                /\ ~Performed(last', NetworkEffects)
          /\ (_sheets_service = NoRef /\ ValidEnvironment(env, files)
                /\ last'.args.buildOk) =>
                /\ last'.exc \notin FactoryFailures
                /\ _sheets_service' /= NoRef
          /\ _sheets_service' /= NoRef => _sheets_service' \in 1..Len(objects')]_vars

\* An append_to_sheet call failed in the build of the client and the cache
\* is still empty.
C10_Witness ==
    /\ last.op = "append_to_sheet"
    /\ last.exc = "BuildError"
    /\ ValidEnvironment(env, files)
    /\ _sheets_service = NoRef
    /\ objects = <<>>

====
